---------------------------- MODULE Spec2Model ----------------------------
(***************************************************************************)
(* Model of the financial_analyzer pipeline: process_data (processor.py),  *)
(* detect_golden_crossover / detect_death_cross (signals.py),              *)
(* save_daily_metrics / save_signals (database.py), PricePoint (models.py) *)
(* and the runs of main (main.py).                                         *)
(*                                                                         *)
(* Specifications.  SpecSignals: the detectors on synthetic SMA tables.    *)
(* SpecProcess: process_data on bounded inputs.  SpecDb: save_daily_metrics*)
(* called twice.  SpecModels: construction of a PricePoint.  Spec: runs of *)
(* main on one database.                                                   *)
(*                                                                         *)
(* Numbers.  A pandas float cell is NaN or a number.  NaN is the empty     *)
(* tuple, a number is the reduced fraction <<n, d>> with d > 0, so that    *)
(* means and ratios of small integers are exact and `=` is numeric         *)
(* equality.  Floating point rounding is not modelled.                     *)
(*                                                                         *)
(* Dates.  A Timestamp is the number of days since 2020-01-01 (January     *)
(* only); strftime("%Y-%m-%d") yields the triple <<year, month, day>>.     *)
(*                                                                         *)
(* Tables.  A DataFrame is [columns |-> set of column names other than     *)
(* "date", rows |-> sequence of [date |-> day, v |-> [columns -> cell]]].  *)
(***************************************************************************)
EXTENDS Integers, Sequences, FiniteSets, TLC

VARIABLES
    raw_data,   \* what fetch_stock_data returned: prices, quarterly_fundamentals, info
    cfg,        \* cfg["data_settings"]: a function from the keys present to integers
    df,         \* the metrics table (process_data's result, or a table handed to a detector)
    done,       \* the calls that have returned so far
    gc_dates,   \* result of detect_golden_crossover
    dc_dates,   \* result of detect_death_cross
    db,         \* rows of the daily_metrics table
    saves,      \* one record per save_daily_metrics call: its ticker and how it ended
    run,        \* main(): where the run stands, its ticker, its exit code
    signals,    \* main(): the list of signal dicts built from the detector's dates
    signal_events,  \* rows of the signal_events table
    summary,    \* content of the output JSON file
    bar,        \* the keyword arguments of a PricePoint(...) call
    price_point \* what that call gave: the object, or the ValidationError

\* the variables main() adds to those of the library calls, and those of models.py
mainvars == <<run, signals, signal_events, summary>>
modelvars == <<bar, price_point>>

vars == <<raw_data, cfg, df, done, gc_dates, dc_dates, db, saves, mainvars, modelvars>>

-----------------------------------------------------------------------------
(* Bounds of the model *)

\* most rows in a price table drawn by Init; price dates lie in 0..MaxRows
MaxRows == 3
\* most rows in a synthetic SMA table handed to the detectors
MaxSigRows == 3
\* most fundamental snapshots drawn by Init
MaxSnaps == 2
\* most save_daily_metrics calls in one behaviour
MaxSaves == 2

-----------------------------------------------------------------------------
(* Float cells *)

NaN == <<>>

RECURSIVE Gcd(_, _)
Gcd(a, b) == IF b = 0 THEN a ELSE Gcd(b, a % b)

Abs(n) == IF n < 0 THEN -n ELSE n

\* the fraction n/d (d # 0) in lowest terms with a positive denominator
Frac(n, d) ==
    LET g == Gcd(Abs(n), Abs(d))
        s == IF d < 0 THEN -1 ELSE 1
    IN  <<(s * n) \div g, (s * d) \div g>>

Num(n) == <<n, 1>>

notna(x) == x # NaN
isna(x) == x = NaN

\* comparisons of float cells: any comparison with NaN is False
Gt(a, b) == notna(a) /\ notna(b) /\ a[1] * b[2] > b[1] * a[2]
Lt(a, b) == notna(a) /\ notna(b) /\ a[1] * b[2] < b[1] * a[2]
Ge(a, b) == notna(a) /\ notna(b) /\ a[1] * b[2] >= b[1] * a[2]
Le(a, b) == notna(a) /\ notna(b) /\ a[1] * b[2] <= b[1] * a[2]

\* arithmetic of float cells: NaN propagates; x/0 is not a number here
Add(a, b) == IF isna(a) \/ isna(b) THEN NaN
             ELSE Frac(a[1] * b[2] + b[1] * a[2], a[2] * b[2])
Sub(a, b) == IF isna(a) \/ isna(b) THEN NaN
             ELSE Frac(a[1] * b[2] - b[1] * a[2], a[2] * b[2])
Div(a, b) == IF isna(a) \/ isna(b) \/ b[1] = 0 THEN NaN
             ELSE Frac(a[1] * b[2], a[2] * b[1])

Range(s) == {s[i] : i \in 1..Len(s)}

\* Series.dt.strftime("%Y-%m-%d") of a January 2020 Timestamp
strftime(t) == <<2020, 1, t + 1>>

-----------------------------------------------------------------------------
(* DataFrames *)

EmptyFrame == [columns |-> {}, rows |-> <<>>]

\* df[col] as a sequence of cells (the column must exist)
Column(frame, col) == [i \in 1..Len(frame.rows) |-> frame.rows[i].v[col]]

\* Series.shift(1): the previous row's cell, NaN at the first row
shift1(s) == [i \in 1..Len(s) |-> IF i = 1 THEN NaN ELSE s[i - 1]]

\* the positions at which the boolean series keep holds, ascending (boolean indexing)
Where(keep) == SelectSeq([i \in 1..Len(keep) |-> i], LAMBDA i : keep[i])

-----------------------------------------------------------------------------
(* signals.py *)

\* the previous-day relation with < in place of <=
cross_up_strict(frame, i) ==
    LET short_sma == Column(frame, "sma_50")
        long_sma == Column(frame, "sma_200")
    IN  /\ Gt(short_sma[i], long_sma[i])
        /\ Lt(shift1(short_sma)[i], shift1(long_sma)[i])
        /\ notna(short_sma[i]) /\ notna(long_sma[i])

\* the previous-day relation written as "not above", which NaN satisfies
cross_up_not_gt(frame, i) ==
    LET short_sma == Column(frame, "sma_50")
        long_sma == Column(frame, "sma_200")
    IN  /\ Gt(short_sma[i], long_sma[i])
        /\ ~Gt(shift1(short_sma)[i], shift1(long_sma)[i])
        /\ notna(short_sma[i]) /\ notna(long_sma[i])

\* signals.py:27-37: cross_up at row i
cross_up(frame, i) ==
    LET short_sma == Column(frame, "sma_50")
        long_sma == Column(frame, "sma_200")
        mask == notna(short_sma[i]) /\ notna(long_sma[i])
        prev_short == shift1(short_sma)
        prev_long == shift1(long_sma)
    IN  Gt(short_sma[i], long_sma[i]) /\ Le(prev_short[i], prev_long[i]) /\ mask

\* the previous-day relation with > in place of >=
cross_down_strict(frame, i) ==
    LET short_sma == Column(frame, "sma_50")
        long_sma == Column(frame, "sma_200")
    IN  /\ Lt(short_sma[i], long_sma[i])
        /\ Gt(shift1(short_sma)[i], shift1(long_sma)[i])
        /\ notna(short_sma[i]) /\ notna(long_sma[i])

\* signals.py:59-69: cross_down at row i
cross_down(frame, i) ==
    LET short_sma == Column(frame, "sma_50")
        long_sma == Column(frame, "sma_200")
        mask == notna(short_sma[i]) /\ notna(long_sma[i])
        prev_short == shift1(short_sma)
        prev_long == shift1(long_sma)
    IN  Lt(short_sma[i], long_sma[i]) /\ Ge(prev_short[i], prev_long[i]) /\ mask

\* signals.py:10-39
detect_golden_crossover(frame) ==
    IF "sma_50" \notin frame.columns \/ "sma_200" \notin frame.columns
    THEN <<>>
    ELSE LET hit == Where([i \in 1..Len(frame.rows) |-> cross_up(frame, i)])
         IN  [k \in 1..Len(hit) |-> strftime(frame.rows[hit[k]].date)]

\* signals.py:42-71
detect_death_cross(frame) ==
    IF "sma_50" \notin frame.columns \/ "sma_200" \notin frame.columns
    THEN <<>>
    ELSE LET hit == Where([i \in 1..Len(frame.rows) |-> cross_down(frame, i)])
         IN  [k \in 1..Len(hit) |-> strftime(frame.rows[hit[k]].date)]

-----------------------------------------------------------------------------
(* Inputs of the detectors: synthetic SMA tables, as in test_signals.py *)

SmaCells == {NaN, Num(5), Num(6), Num(7)}

\* no run of main() under way, no file written, no PricePoint call made
NoRun == [pc |-> "idle", ticker |-> "", log |-> <<>>, raised |-> "", exit_code |-> 0 - 1,
          wrote |-> FALSE, runs |-> 0]
NoFile == [ticker |-> "", metrics_count |-> -1, signals |-> <<>>]
NoBar == [k \in {} |-> 0]
NoMain == run = NoRun /\ signals = <<>> /\ signal_events = <<>> /\ summary = NoFile
NoPoint == [raised |-> "", object |-> NoBar]
NoModel == bar = NoBar /\ price_point = NoPoint

NoCfg == [k \in {} |-> 0]
NoRaw == [prices |-> <<>>, quarterly_fundamentals |-> <<>>, fund_date_key |-> "as_of",
          info |-> [k \in {} |-> NaN]]

\* a table with the columns date, sma_50, sma_200 on consecutive days from 2020-01-01
SmaTable(s, l) ==
    [columns |-> {"sma_50", "sma_200"},
     rows |-> [i \in 1..Len(s) |->
                 [date |-> i - 1,
                  v |-> [c \in {"sma_50", "sma_200"} |->
                           IF c = "sma_50" THEN s[i] ELSE l[i]]]]]

\* test_signals.py:5-17
GoldenScenario ==
    SmaTable(<<Num(5), Num(5), Num(5), Num(6), Num(7)>>,
             <<Num(5), Num(5), Num(6), Num(6), Num(6)>>)

\* test_signals.py:20-32
DeathScenario ==
    SmaTable(<<Num(7), Num(6), Num(6), Num(5), Num(5)>>,
             <<Num(6), Num(6), Num(6), Num(6), Num(6)>>)

\* test_signals.py:35-46: a table without the SMA columns
NoSmaTable ==
    [columns |-> {"close"},
     rows |-> [i \in 1..2 |-> [date |-> i - 1, v |-> [c \in {"close"} |-> Num(99 + i)]]]]

SignalTables ==
    {SmaTable(s, l) : <<s, l>> \in UNION {[1..n -> SmaCells] \X [1..n -> SmaCells] :
                                            n \in 0..MaxSigRows}}
    \cup {GoldenScenario, DeathScenario, NoSmaTable}

InitSignals ==
    /\ raw_data = NoRaw
    /\ cfg = NoCfg
    /\ df \in SignalTables
    /\ done = {}
    /\ gc_dates = <<>>
    /\ dc_dates = <<>>
    /\ db = <<>>
    /\ saves = <<>>
    /\ NoMain /\ NoModel

\* a call of detect_golden_crossover(df)
DetectGolden ==
    /\ "detect_golden_crossover" \notin done
    /\ gc_dates' = detect_golden_crossover(df)
    /\ done' = done \cup {"detect_golden_crossover"}
    /\ UNCHANGED <<raw_data, cfg, df, dc_dates, db, saves, mainvars, modelvars>>

\* a call of detect_death_cross(df)
DetectDeath ==
    /\ "detect_death_cross" \notin done
    /\ dc_dates' = detect_death_cross(df)
    /\ done' = done \cup {"detect_death_cross"}
    /\ UNCHANGED <<raw_data, cfg, df, gc_dates, db, saves, mainvars, modelvars>>

NextSignals == DetectGolden \/ DetectDeath

SpecSignals == InitSignals /\ [][NextSignals]_vars

-----------------------------------------------------------------------------
(* Claims about the detectors *)

\* cell of column col at row i, NaN when the table has no such column
Cell(i, col) == IF col \in df.columns THEN df.rows[i].v[col] ELSE NaN

BothDefined(i) == Cell(i, "sma_50") # NaN /\ Cell(i, "sma_200") # NaN

\* short - long at row i is positive / negative / zero (both cells defined)
ShortMinusLong(i) ==
    Cell(i, "sma_50")[1] * Cell(i, "sma_200")[2] - Cell(i, "sma_200")[1] * Cell(i, "sma_50")[2]

GoldenCondition(i) ==
    /\ i >= 2
    /\ BothDefined(i) /\ BothDefined(i - 1)
    /\ ShortMinusLong(i) > 0 /\ ShortMinusLong(i - 1) <= 0

DeathCondition(i) ==
    /\ i >= 2
    /\ BothDefined(i) /\ BothDefined(i - 1)
    /\ ShortMinusLong(i) < 0 /\ ShortMinusLong(i - 1) >= 0

\* a list of date strings is strictly ascending by day (no date twice)
Ascending(dates) == \A j, k \in 1..Len(dates) : j < k => dates[j][3] < dates[k][3]

\* C1: detect_golden_crossover returns the date of row i iff i >= 1 (0-based), both series
\* are defined at rows i and i-1, short[i] > long[i] and short[i-1] <= long[i-1]; on the
\* test scenario the result is exactly [2020-01-05].
C1_GoldenIff ==
    "detect_golden_crossover" \in done =>
        /\ \A i \in 1..Len(df.rows) :
              (strftime(df.rows[i].date) \in Range(gc_dates)) <=> GoldenCondition(i)
        /\ Range(gc_dates) \subseteq {strftime(df.rows[i].date) : i \in 1..Len(df.rows)}
        /\ Ascending(gc_dates)
        /\ (df = GoldenScenario => gc_dates = << <<2020, 1, 5>> >>)

C1_Witness ==
    /\ "detect_golden_crossover" \in done
    /\ df = GoldenScenario
    /\ gc_dates = << <<2020, 1, 5>> >>

\* C2: detect_death_cross returns the date of row i iff i >= 1 (0-based), both series are
\* defined at rows i and i-1, short[i] < long[i] and short[i-1] >= long[i-1]; on the test
\* scenario the result is exactly [2020-01-04].
C2_DeathIff ==
    "detect_death_cross" \in done =>
        /\ \A i \in 1..Len(df.rows) :
              (strftime(df.rows[i].date) \in Range(dc_dates)) <=> DeathCondition(i)
        /\ Range(dc_dates) \subseteq {strftime(df.rows[i].date) : i \in 1..Len(df.rows)}
        /\ Ascending(dc_dates)
        /\ (df = DeathScenario => dc_dates = << <<2020, 1, 4>> >>)

C2_Witness ==
    /\ "detect_death_cross" \in done
    /\ df = DeathScenario
    /\ dc_dates = << <<2020, 1, 4>> >>

\* the rows at which the short or the long series is undefined, and the rows after them
ExcludedDates ==
    {strftime(df.rows[i].date) : i \in {j \in 1..Len(df.rows) : ~BothDefined(j)}}
    \cup {strftime(df.rows[i].date) : i \in {j \in 2..Len(df.rows) : ~BothDefined(j - 1)}}

\* C3: if the short or long series is undefined at row i, neither detector emits an event
\* at row i or at row i+1, whatever the surrounding values.
C3_UndefinedNeverEmits ==
    /\ "detect_golden_crossover" \in done => Range(gc_dates) \cap ExcludedDates = {}
    /\ "detect_death_cross" \in done => Range(dc_dates) \cap ExcludedDates = {}

\* test_signals.py:48-59: short = [5, NA, 7] against long = [6, 6, 6]; without the gap
\* row 3 would be a golden cross
C3_Witness ==
    /\ done = {"detect_golden_crossover", "detect_death_cross"}
    /\ df = SmaTable(<<Num(5), NaN, Num(7)>>, <<Num(6), Num(6), Num(6)>>)
    /\ gc_dates = <<>> /\ dc_dates = <<>>

-----------------------------------------------------------------------------
(* processor.py: helpers *)

Max(a, b) == IF a >= b THEN a ELSE b
Min(a, b) == IF a <= b THEN a ELSE b

\* str.lower() on the column names that occur in the model
Lower(name) ==
    CASE name = "Cash" -> "cash"
      [] name = "totalLiab" -> "totalliab"
      [] name = "totalLiabilities" -> "totalliabilities"
      [] name = "totalShareholdersEquity" -> "totalshareholdersequity"
      [] name = "totalStockholdersEquity" -> "totalstockholdersequity"
      [] OTHER -> name

\* the value _find_col returns for "no column"
None == ""

\* processor.py:13-22: first candidate that is a column, exactly or case-insensitively
RECURSIVE find_col_from(_, _, _)
find_col_from(columns, candidates, k) ==
    IF k > Len(candidates) THEN None
    ELSE IF candidates[k] \in columns THEN candidates[k]
    ELSE IF \E col \in columns : Lower(col) = Lower(candidates[k])
         THEN CHOOSE col \in columns : Lower(col) = Lower(candidates[k])
    ELSE find_col_from(columns, candidates, k + 1)

\* the columns of a frame as pandas lists them: "date" and the others
_find_col(frame, candidates) == find_col_from(frame.columns \cup {"date"}, candidates, 1)

\* DataFrame.sort_values("date").reset_index(drop=True) on rows with distinct dates
sort_values(rows) ==
    [i \in 1..Len(rows) |->
        CHOOSE r \in Range(rows) : Cardinality({q \in Range(rows) : q.date < r.date}) = i - 1]

\* frame with the column `name` set to the series cell
Assign(frame, name, cell) ==
    [columns |-> frame.columns \cup {name},
     rows |-> [i \in 1..Len(frame.rows) |->
                 [date |-> frame.rows[i].date,
                  v |-> [c \in frame.columns \cup {name} |->
                           IF c = name THEN cell[i] ELSE frame.rows[i].v[c]]]]]

\* the rows of positions lo..hi of series s that hold a number
Observations(s, lo, hi) == {j \in lo..hi : notna(s[j])}

RECURSIVE SumOver(_, _)
SumOver(s, idx) ==
    IF idx = {} THEN Num(0)
    ELSE LET j == CHOOSE x \in idx : TRUE IN Add(s[j], SumOver(s, idx \ {j}))

\* a window that reaches one row too far back
rolling_mean_wide(s, window, min_periods, i) ==
    LET obs == Observations(s, Max(1, i - window), i)
    IN  IF Cardinality(obs) >= min_periods /\ obs # {}
        THEN Div(SumOver(s, obs), Num(Cardinality(obs)))
        ELSE NaN

\* Series.rolling(window, min_periods).mean() at row i: the mean of the numbers among the
\* last `window` rows, NaN when fewer than min_periods of them are numbers
rolling_mean(s, window, min_periods, i) ==
    LET obs == Observations(s, Max(1, i - window + 1), i)
    IN  IF Cardinality(obs) >= min_periods /\ obs # {}
        THEN Div(SumOver(s, obs), Num(Cardinality(obs)))
        ELSE NaN

\* Series.rolling(window, min_periods).max() at row i
rolling_max(s, window, min_periods, i) ==
    LET obs == Observations(s, Max(1, i - window + 1), i)
    IN  IF Cardinality(obs) >= min_periods /\ obs # {}
        THEN CHOOSE m \in {s[j] : j \in obs} : \A j \in obs : Ge(m, s[j])
        ELSE NaN

\* processor.py:46-50: dict.get with a default on cfg["data_settings"]
CfgGet(c, key, default) == IF key \in DOMAIN c THEN c[key] ELSE default

DefaultShortWindow == 50
DefaultLongWindow == 200
Default52wkWindow == 252

window_short(c) == CfgGet(c, "sma_short_window", DefaultShortWindow)
window_long(c) == CfgGet(c, "min_trading_days_for_sma", DefaultLongWindow)
window_52wk(c) == CfgGet(c, "rolling_days_for_52week", Default52wkWindow)

-----------------------------------------------------------------------------
(* processor.py: the stages of process_data *)

PriceCols == {"open", "high", "low", "close", "volume"}

\* processor.py:52-88: the price records as a frame, sorted by date
PriceFrame(raw) == [columns |-> PriceCols, rows |-> sort_values(raw.prices)]

\* processor.py:92: pd.DataFrame(list of dicts): the columns are the union of the keys,
\* a key a record lacks is NaN in its row
FundColumns(raw) ==
    UNION {DOMAIN raw.quarterly_fundamentals[k].fields :
             k \in 1..Len(raw.quarterly_fundamentals)}

FundRows(raw) ==
    [k \in 1..Len(raw.quarterly_fundamentals) |->
        LET rec == raw.quarterly_fundamentals[k]
        IN  [date |-> rec.date,
             v |-> [c \in FundColumns(raw) |->
                      IF c \in DOMAIN rec.fields THEN rec.fields[c] ELSE NaN]]]

\* processor.py:95-102: the fundamentals' date key is "as_of" or "date", or the name
\* contains "date" or "period"
HasFundDate(key) == key \in {"as_of", "date", "end_date", "period"}

\* the forward-looking join: the first right row whose date is >= the left date
AsofMatchForward(right, d) ==
    LET ok == {k \in 1..Len(right) : right[k].date >= d}
    IN  IF ok = {} THEN 0 ELSE CHOOSE k \in ok : \A j \in ok : j >= k

\* merge_asof(direction="backward"): the last right row whose date is <= the left date,
\* on right rows sorted by date; 0 when there is none
AsofMatch(right, d) ==
    LET ok == {k \in 1..Len(right) : right[k].date <= d}
    IN  IF ok = {} THEN 0 ELSE CHOOSE k \in ok : \A j \in ok : j <= k

\* processor.py:108-114 on the sorted fundamentals: the price frame with the
\* fundamentals' columns (no fundamental column is named like a price column here)
merge_asof(left, right, rightCols) ==
    [columns |-> left.columns \cup rightCols,
     rows |-> [i \in 1..Len(left.rows) |->
                 LET m == AsofMatch(right, left.rows[i].date)
                 IN  [date |-> left.rows[i].date,
                      v |-> [c \in left.columns \cup rightCols |->
                               IF c \in left.columns THEN left.rows[i].v[c]
                               ELSE IF m = 0 THEN NaN ELSE right[m].v[c]]]]]

\* processor.py:90-121
Aligned(raw) ==
    IF raw.quarterly_fundamentals # <<>> /\ HasFundDate(raw.fund_date_key)
    THEN merge_asof(PriceFrame(raw), sort_values(FundRows(raw)), FundColumns(raw))
    ELSE PriceFrame(raw)

\* DataFrame.ffill(): a NaN cell takes the cell of the nearest earlier row that has one
RECURSIVE ffill_cell(_, _, _)
ffill_cell(rows, i, c) ==
    IF notna(rows[i].v[c]) \/ i = 1 THEN rows[i].v[c] ELSE ffill_cell(rows, i - 1, c)

\* processor.py:129
ffill(frame) ==
    [columns |-> frame.columns,
     rows |-> [i \in 1..Len(frame.rows) |->
                 [date |-> frame.rows[i].date,
                  v |-> [c \in frame.columns |-> ffill_cell(frame.rows, i, c)]]]]

\* processor.py:137-138
minp(window, available) == Min(window, Max(1, available))

\* processor.py:131-144
WithSma(frame, c) ==
    LET available == Len(frame.rows)
        close == Column(frame, "close")
        s50 == Assign(frame, "sma_50",
                 [i \in 1..available |->
                    rolling_mean(close, window_short(c), minp(window_short(c), available), i)])
    IN  Assign(s50, "sma_200",
               [i \in 1..available |->
                  rolling_mean(close, window_long(c), minp(window_long(c), available), i)])

\* processor.py:146-155
With52wk(frame, c) ==
    LET close == Column(frame, "close")
        hi == Assign(frame, "52wk_high",
                [i \in 1..Len(frame.rows) |-> rolling_max(close, window_52wk(c), 1, i)])
    IN  Assign(hi, "pct_from_52wk_high",
               [i \in 1..Len(frame.rows) |->
                  IF Gt(hi.rows[i].v["52wk_high"], Num(0))
                  THEN Div(Sub(close[i], hi.rows[i].v["52wk_high"]), hi.rows[i].v["52wk_high"])
                  ELSE NaN])

\* WithRatios that only asks for shares other than zero: negative shares divide too
WithRatios_nonzero_shares(frame) ==
    LET eq_col == _find_col(frame, <<"total_equity", "totalShareholdersEquity",
                                     "totalStockholdersEquity", "total_equity_fund">>)
        shares_col == _find_col(frame, <<"shares_outstanding", "shares",
                                         "common_shares_outstanding">>)
        n == Len(frame.rows)
        bv == IF eq_col # None /\ shares_col # None
              THEN Assign(frame, "bvps",
                     [i \in 1..n |->
                        IF notna(frame.rows[i].v[shares_col]) /\ frame.rows[i].v[shares_col] # Num(0)
                           /\ ~isna(frame.rows[i].v[eq_col])
                        THEN Div(frame.rows[i].v[eq_col], frame.rows[i].v[shares_col])
                        ELSE NaN])
              ELSE Assign(frame, "bvps", [i \in 1..n |-> NaN])
    IN  IF eq_col # None /\ shares_col # None
        THEN Assign(bv, "pb_ratio",
               [i \in 1..n |->
                  IF notna(bv.rows[i].v["bvps"]) /\ bv.rows[i].v["bvps"] # Num(0)
                  THEN Div(bv.rows[i].v["close"], bv.rows[i].v["bvps"])
                  ELSE NaN])
        ELSE Assign(bv, "pb_ratio", [i \in 1..n |-> NaN])

\* processor.py:157-185
WithRatios(frame) ==
    LET eq_col == _find_col(frame, <<"total_equity", "totalShareholdersEquity",
                                     "totalStockholdersEquity", "total_equity_fund">>)
        shares_col == _find_col(frame, <<"shares_outstanding", "shares",
                                         "common_shares_outstanding">>)
        n == Len(frame.rows)
        bv == IF eq_col # None /\ shares_col # None
              THEN Assign(frame, "bvps",
                     [i \in 1..n |->
                        IF Gt(frame.rows[i].v[shares_col], Num(0))
                           /\ ~isna(frame.rows[i].v[eq_col])
                        THEN Div(frame.rows[i].v[eq_col], frame.rows[i].v[shares_col])
                        ELSE NaN])
              ELSE Assign(frame, "bvps", [i \in 1..n |-> NaN])
    IN  IF eq_col # None /\ shares_col # None
        THEN Assign(bv, "pb_ratio",
               [i \in 1..n |->
                  IF notna(bv.rows[i].v["bvps"]) /\ bv.rows[i].v["bvps"] # Num(0)
                  THEN Div(bv.rows[i].v["close"], bv.rows[i].v["bvps"])
                  ELSE NaN])
        ELSE Assign(bv, "pb_ratio", [i \in 1..n |-> NaN])

\* dict.get: Python's None for a missing key is the empty cell
InfoGet(info, key) == IF key \in DOMAIN info THEN info[key] ELSE NaN

\* Python's truth value of an info value: a number, or None (the empty cell)
Truthy(x) == x # NaN /\ x[1] # 0

\* Python's `a or b`
Or(a, b) == IF Truthy(a) THEN a ELSE b

\* processor.py:190
market_cap(info) == Or(InfoGet(info, "marketCap"), InfoGet(info, "market_cap"))

\* processor.py:198-200
cash_info(info) ==
    Or(Or(InfoGet(info, "totalCash"), InfoGet(info, "cash")),
       InfoGet(info, "cashAndCashEquivalents"))

\* processor.py:192-197
liab_col(frame) ==
    _find_col(frame, <<"total_liab", "total_liabilities", "totalLiab", "totalLiabilities">>)
cash_col_fund(frame) ==
    _find_col(frame, <<"cash_and_equivalents", "cash", "cash_equivalents">>)

\* NaN counts as zero in the sum
OrZero(x) == IF isna(x) THEN Num(0) ELSE x

\* _compute_ev without the zero for a missing part: a NaN liability or cash reaches the sum
_compute_ev_nan_sum(frame, info, i) ==
    LET row == frame.rows[i].v
        mc == Or(market_cap(info), NaN)
        tl == IF liab_col(frame) # None /\ notna(row[liab_col(frame)])
              THEN row[liab_col(frame)] ELSE NaN
        cash == IF cash_col_fund(frame) # None /\ notna(row[cash_col_fund(frame)])
                THEN row[cash_col_fund(frame)] ELSE Or(cash_info(info), NaN)
    IN  IF isna(mc) THEN NaN
        ELSE Sub(Add(mc, tl), cash)

\* processor.py:203-225
_compute_ev(frame, info, i) ==
    LET row == frame.rows[i].v
        mc == Or(market_cap(info), NaN)
        tl == IF liab_col(frame) # None /\ notna(row[liab_col(frame)])
              THEN row[liab_col(frame)] ELSE NaN
        cash == IF cash_col_fund(frame) # None /\ notna(row[cash_col_fund(frame)])
                THEN row[cash_col_fund(frame)] ELSE Or(cash_info(info), NaN)
    IN  IF isna(mc) THEN NaN
        ELSE Sub(Add(mc, OrZero(tl)), OrZero(cash))

\* processor.py:227
WithEv(frame, info) ==
    Assign(frame, "ev", [i \in 1..Len(frame.rows) |-> _compute_ev(frame, info, i)])

\* processor.py:25-233
process_data(raw, c) ==
    IF raw.prices = <<>> THEN EmptyFrame
    ELSE WithEv(WithRatios(With52wk(WithSma(ffill(Aligned(raw)), c), c)), raw.info)

-----------------------------------------------------------------------------
(* Inputs of process_data *)

\* a function from the keys of the pairs whose value is not NaN to those values
\* (a dict that lacks the keys whose value is missing)
DictOf(pairs) ==
    LET kept == {q \in pairs : q[2] # NaN}
    IN  [k \in {q[1] : q \in kept} |-> (CHOOSE q \in kept : q[1] = k)[2]]

\* the elements of a set of days as an ascending / descending sequence
Asc(D) == [i \in 1..Cardinality(D) |-> CHOOSE d \in D : Cardinality({e \in D : e < d}) = i - 1]
Desc(D) == [i \in 1..Cardinality(D) |-> CHOOSE d \in D : Cardinality({e \in D : e > d}) = i - 1]

Days == 0..MaxRows

Bar(o, h, l, c, vol) ==
    [k \in PriceCols |->
        CASE k = "open" -> o [] k = "high" -> h [] k = "low" -> l
          [] k = "close" -> c [] k = "volume" -> vol]

FullBar(c) == Bar(Num(c), Num(c + 1), Num(c), Num(c), Num(10))

\* price bars: two complete ones, one without a close, one with only low and close
Bars == {FullBar(1), FullBar(3),
         Bar(Num(2), Num(3), Num(2), NaN, Num(10)),
         Bar(NaN, NaN, Num(1), Num(1), NaN)}

\* price records on distinct days, at most MaxRows of them, in ascending or descending
\* order of date, each bar drawn from bars
PriceTables(bars) ==
    UNION {{[i \in 1..Len(order) |-> [date |-> order[i], v |-> f[order[i]]]] :
              <<order, f>> \in {Asc(D), Desc(D)} \X [D -> bars]} :
           D \in {E \in SUBSET Days : E # {} /\ Cardinality(E) <= MaxRows}}

\* cfg["data_settings"]; 0 stands for "key not configured"
CfgOf(s, l, w) ==
    LET pairs == {<<"sma_short_window", s>>, <<"min_trading_days_for_sma", l>>,
                  <<"rolling_days_for_52week", w>>}
        kept == {q \in pairs : q[2] # 0}
    IN  [k \in {q[1] : q \in kept} |-> (CHOOSE q \in kept : q[1] = k)[2]]

\* nothing configured (the defaults 50, 200, 252), and windows that the bounded price
\* tables fill
Cfgs == {CfgOf(0, 0, 0), CfgOf(1, 2, 2), CfgOf(1, 3, 0), CfgOf(2, 3, 2), CfgOf(2, 2, 0),
         CfgOf(2, 0, 1)}

\* fundamental snapshots: a complete one and two sparse ones
SnapFull == DictOf({<<"total_equity", Num(40)>>, <<"shares_outstanding", Num(10)>>,
                    <<"total_liab", Num(30)>>, <<"cash", Num(5)>>})
SnapEquityOnly == DictOf({<<"total_equity", Num(60)>>})
SnapNoEquity == DictOf({<<"shares_outstanding", Num(20)>>, <<"total_liab", Num(50)>>})
Snaps == {SnapFull, SnapEquityOnly, SnapNoEquity}

\* snapshot records on distinct days, at most MaxSnaps of them, ascending or descending
SnapTables(snaps) ==
    UNION {{[i \in 1..Len(order) |-> [date |-> order[i], fields |-> f[order[i]]]] :
              <<order, f>> \in {Asc(D), Desc(D)} \X [D -> snaps]} :
           D \in {E \in SUBSET Days : Cardinality(E) <= MaxSnaps}}

\* snapshots for the ratio columns: every field present or missing, shares and cash
\* possibly zero, and one snapshot that spells the fields differently
RatioSnaps ==
    {DictOf({<<"total_equity", e>>, <<"shares_outstanding", sh>>,
             <<"total_liab", tl>>, <<"cash", ca>>}) :
        e \in {NaN, Num(40)}, sh \in {NaN, Num(0), Num(10)},
        tl \in {NaN, Num(30)}, ca \in {NaN, Num(0), Num(5)}}
    \cup {DictOf({<<"totalStockholdersEquity", Num(40)>>, <<"shares", Num(10)>>,
                  <<"totalLiabilities", Num(30)>>, <<"Cash", Num(5)>>}),
          DictOf({<<"total_equity", Num(40)>>, <<"shares_outstanding", Num(0 - 10)>>})}

\* info snapshots
Infos ==
    {DictOf({}),
     DictOf({<<"marketCap", Num(100)>>}),
     DictOf({<<"market_cap", Num(100)>>, <<"totalCash", Num(7)>>}),
     DictOf({<<"marketCap", Num(100)>>, <<"totalCash", Num(7)>>, <<"totalLiab", Num(25)>>}),
     DictOf({<<"marketCap", Num(0)>>, <<"market_cap", Num(0)>>, <<"cash", Num(7)>>}),
     DictOf({<<"totalCash", Num(7)>>, <<"totalLiab", Num(25)>>})}

Raw(prices, funds, key, info) ==
    [prices |-> prices, quarterly_fundamentals |-> funds, fund_date_key |-> key,
     info |-> info]

\* varied prices and windows, no fundamentals, no info
IndicatorInputs ==
    {[raw |-> Raw(p, <<>>, "as_of", DictOf({})), cfg |-> c] :
        p \in PriceTables(Bars) \cup {<<>>}, c \in Cfgs}

\* varied fundamentals under three spellings of their date key
AlignInputs ==
    {[raw |-> Raw(p, f, key, DictOf({<<"marketCap", Num(100)>>})), cfg |-> NoCfg] :
        p \in {q \in PriceTables({FullBar(2)}) : q = sort_values(q) /\ Len(q) >= MaxRows - 1},
        f \in SnapTables(Snaps), key \in {"as_of", "end_date", "quarter"}}

\* two price rows, at most one snapshot (on the second day), varied fields and info
RatioInputs ==
    {[raw |-> Raw(<<[date |-> 0, v |-> FullBar(2)], [date |-> 1, v |-> FullBar(3)]>>,
                  f, "as_of", info),
      cfg |-> NoCfg] :
        f \in {<<>>} \cup {<<[date |-> 1, fields |-> t]>> : t \in RatioSnaps},
        info \in Infos}

ProcessInputs == IndicatorInputs \cup AlignInputs \cup RatioInputs

InitProcess ==
    /\ \E inp \in ProcessInputs : raw_data = inp.raw /\ cfg = inp.cfg
    /\ df = EmptyFrame
    /\ done = {}
    /\ gc_dates = <<>>
    /\ dc_dates = <<>>
    /\ db = <<>>
    /\ saves = <<>>
    /\ NoMain /\ NoModel

\* main.py:39: df = process_data(raw, cfg)
ProcessData ==
    /\ "process_data" \notin done
    /\ df' = process_data(raw_data, cfg)
    /\ done' = done \cup {"process_data"}
    /\ UNCHANGED <<raw_data, cfg, gc_dates, dc_dates, db, saves, mainvars, modelvars>>

NextProcess == ProcessData

SpecProcess == InitProcess /\ [][NextProcess]_vars

Processed == "process_data" \in done

-----------------------------------------------------------------------------
(* Claims about process_data *)

\* the price records in the order process_data puts them
SortedPrices == sort_values(raw_data.prices)

AllClosesPresent == \A k \in 1..Len(raw_data.prices) : raw_data.prices[k].v["close"] # NaN

\* sum of the integer-valued cells s[lo..hi]
RECURSIVE IntSum(_, _, _)
IntSum(s, lo, hi) == IF lo > hi THEN 0 ELSE s[hi][1] + IntSum(s, lo, hi - 1)

\* the arithmetic mean of the cells s[lo..hi]; undefined when one of them is
MeanOf(s, lo, hi) ==
    IF \E j \in lo..hi : s[j] = NaN THEN NaN ELSE Frac(IntSum(s, lo, hi), hi - lo + 1)

\* C5: for every non-empty price series and any configured windows, sma_50 and sma_200 are
\* defined at every output row; at a row with fewer than W observations so far the average
\* is taken over the observations available so far.
C5_SmaDefinedEverywhere ==
    (Processed /\ raw_data.prices # <<>> /\ AllClosesPresent) =>
        \A i \in 1..Len(df.rows) :
            /\ df.rows[i].v["sma_50"] =
                 MeanOf(Column(df, "close"), Max(1, i - window_short(cfg) + 1), i)
            /\ df.rows[i].v["sma_200"] =
                 MeanOf(Column(df, "close"), Max(1, i - window_long(cfg) + 1), i)

\* C6: for a price series with at least W rows (W the short window, 50 when
\* sma_short_window is not configured), sma_50 at the last output row equals the arithmetic
\* mean of the last W close values (undefined when one of those closes is).
C6_LastSmaIsMeanOfLastW ==
    (Processed /\ Len(df.rows) >= 1
       /\ Len(df.rows) >= CfgGet(cfg, "sma_short_window", DefaultShortWindow)) =>
        LET n == Len(df.rows)
            W == CfgGet(cfg, "sma_short_window", DefaultShortWindow)
        IN  df.rows[n].v["sma_50"] = MeanOf(Column(df, "close"), n - W + 1, n)

\* three rows, W = 2, closes 3, 1, 3 in date order: the last sma_50 is (1 + 3) / 2
C6_Witness ==
    /\ Processed
    /\ Len(df.rows) = 3
    /\ CfgGet(cfg, "sma_short_window", DefaultShortWindow) = 2
    /\ Column(df, "close") = <<Num(3), Num(1), Num(3)>>
    /\ df.rows[3].v["sma_50"] = Num(2)

IndicatorCols == {"sma_50", "sma_200", "52wk_high", "pct_from_52wk_high"}

\* raw_data with only the first k price records (in date order)
Truncated(k) == [raw_data EXCEPT !.prices = SubSeq(SortedPrices, 1, k)]

\* C7: every indicator value at row i (sma_50, sma_200, 52wk_high, pct_from_52wk_high,
\* defined or absent) depends only on price rows 0..i: process_data on the series without
\* the later rows gives the same values at row i.
C7_BackwardLooking ==
    Processed =>
        \A k \in 1..Len(df.rows) :
            LET short == process_data(Truncated(k), cfg)
            IN  \A i \in 1..k : \A c \in IndicatorCols :
                    short.rows[i].v[c] = df.rows[i].v[c]

\* the snapshot records dated on or before day d, and the most recent of them
SnapsUpTo(d) ==
    {rec \in Range(raw_data.quarterly_fundamentals) : rec.date <= d}
LatestSnap(d) == CHOOSE rec \in SnapsUpTo(d) : \A o \in SnapsUpTo(d) : o.date <= rec.date

\* field c of a snapshot record, NaN when the record lacks it
Field(rec, c) == IF c \in DOMAIN rec.fields THEN rec.fields[c] ELSE NaN

AlignmentRan ==
    /\ Processed
    /\ raw_data.prices # <<>>
    /\ raw_data.quarterly_fundamentals # <<>>
    /\ HasFundDate(raw_data.fund_date_key)

OneRowPerPriceDate ==
    /\ Len(df.rows) = Len(raw_data.prices)
    /\ \A i \in 1..Len(df.rows) : df.rows[i].date = SortedPrices[i].date

\* C8 as claimed: one output row per price date, and on the row of price date d every
\* fundamental field carries the value of the most recent snapshot dated <= d (absent
\* before the first snapshot).
C8_Original ==
    AlignmentRan =>
        /\ OneRowPerPriceDate
        /\ \A i \in 1..Len(df.rows) : \A c \in FundColumns(raw_data) :
              df.rows[i].v[c] =
                IF SnapsUpTo(df.rows[i].date) = {} THEN NaN
                ELSE Field(LatestSnap(df.rows[i].date), c)

\* C8, amended: one output row per price date; on the row of price date d a fundamental
\* field carries the value of the most recent snapshot dated <= d when that snapshot has
\* the field, and otherwise the value the previous output row carries (absent on the first
\* row); a value is never one that only snapshots dated after d have, and every field is
\* absent on rows dated before the first snapshot.
C8_AsOfThenForwardFill ==
    AlignmentRan =>
        /\ OneRowPerPriceDate
        /\ \A i \in 1..Len(df.rows) : \A c \in FundColumns(raw_data) :
              LET d == df.rows[i].date
                  cell == df.rows[i].v[c]
              IN  /\ cell =
                       IF SnapsUpTo(d) # {} /\ Field(LatestSnap(d), c) # NaN
                       THEN Field(LatestSnap(d), c)
                       ELSE IF i = 1 THEN NaN ELSE df.rows[i - 1].v[c]
                  /\ cell # NaN => \E rec \in SnapsUpTo(d) : Field(rec, c) = cell
                  /\ SnapsUpTo(d) = {} => cell = NaN

\* a row whose most recent snapshot lacks a field that an older snapshot had: the row
\* carries the older value; and a row dated before the first snapshot
C8_Witness ==
    /\ AlignmentRan
    /\ \E i \in 1..Len(df.rows) : \E c \in FundColumns(raw_data) :
          /\ SnapsUpTo(df.rows[i].date) # {}
          /\ Field(LatestSnap(df.rows[i].date), c) = NaN
          /\ df.rows[i].v[c] # NaN
    /\ \E i \in 1..Len(df.rows) : SnapsUpTo(df.rows[i].date) = {}

\* C9: with an empty fundamentals sequence the price rows pass through unchanged: every
\* output row's open, high, low, close, volume equal those of the input row with the same
\* date, absent fields included.
C9_PricesPassThrough ==
    (Processed /\ raw_data.quarterly_fundamentals = <<>>) =>
        /\ Len(df.rows) = Len(raw_data.prices)
        /\ \A i \in 1..Len(df.rows) :
              \E k \in 1..Len(raw_data.prices) :
                  /\ raw_data.prices[k].date = df.rows[i].date
                  /\ \A c \in PriceCols : df.rows[i].v[c] = raw_data.prices[k].v[c]

\* the info snapshot's value for a component: the first of the keys that has a value
RECURSIVE InfoFirst(_, _, _)
InfoFirst(info, keys, k) ==
    IF k > Len(keys) THEN NaN
    ELSE IF InfoGet(info, keys[k]) # NaN THEN InfoGet(info, keys[k])
    ELSE InfoFirst(info, keys, k + 1)

InfoLiabilities ==
    InfoFirst(raw_data.info,
              <<"total_liab", "total_liabilities", "totalLiab", "totalLiabilities">>, 1)
InfoCash == InfoFirst(raw_data.info, <<"totalCash", "cash", "cashAndCashEquivalents">>, 1)

\* the row's own value of a component: the cell of the first matching column
RowValue(i, candidates) ==
    LET hits == {c \in df.columns : \E k \in 1..Len(candidates) :
                                       Lower(c) = Lower(candidates[k])}
    IN  IF hits = {} THEN NaN ELSE df.rows[i].v[CHOOSE c \in hits : TRUE]

\* the row's own value when present, else the info snapshot's, else nothing (zero)
Preferred(own, fallback) ==
    IF own # NaN THEN own ELSE IF fallback # NaN THEN fallback ELSE Num(0)

\* C10: in the enterprise value, total_liabilities and cash both use the row's own aligned
\* value when it is present and otherwise the info snapshot's value for that component
\* when the snapshot has one.
C10_BothFallBackToInfo ==
    (Processed /\ market_cap(raw_data.info) # NaN /\ market_cap(raw_data.info) # Num(0)) =>
        \A i \in 1..Len(df.rows) :
            df.rows[i].v["ev"] =
                Sub(Add(market_cap(raw_data.info),
                        Preferred(RowValue(i, <<"total_liab", "total_liabilities",
                                                "totalLiab", "totalLiabilities">>),
                                  InfoLiabilities)),
                    Preferred(RowValue(i, <<"cash_and_equivalents", "cash",
                                            "cash_equivalents">>),
                              InfoCash))

\* the cash half of C10 alone: the row's cash when present, else the info snapshot's
C10_CashFallsBack ==
    (Processed /\ market_cap(raw_data.info) # NaN /\ market_cap(raw_data.info) # Num(0)) =>
        \A i \in 1..Len(df.rows) :
            df.rows[i].v["ev"] =
                Sub(Add(market_cap(raw_data.info),
                        Preferred(RowValue(i, <<"total_liab", "total_liabilities",
                                                "totalLiab", "totalLiabilities">>),
                                  NaN)),
                    Preferred(RowValue(i, <<"cash_and_equivalents", "cash",
                                            "cash_equivalents">>),
                              InfoCash))

-----------------------------------------------------------------------------
(* database.py: the daily_metrics table and save_daily_metrics *)

Tickers == {"AAA", "BBB"}

\* `cell or 0.0` on a float cell of the frame: 0.0 for zero, the cell itself otherwise (a
\* NaN cell is truthy and stays NaN; SQLite stores it as NULL, read back as absent)
CellOrZero(x) == IF x # NaN /\ x[1] = 0 THEN Num(0) ELSE x

\* database.py:88-91: float(row.get(col) or 0.0); a missing column gives None, so 0.0
FloatOrZero(frame, i, col) ==
    IF col \in frame.columns THEN CellOrZero(frame.rows[i].v[col]) ELSE Num(0)

\* database.py:92-98: float(row.get(col) or 0.0) if row.get(col) is not None else None
FloatOrNone(frame, i, col) ==
    IF col \in frame.columns THEN CellOrZero(frame.rows[i].v[col]) ELSE NaN

\* database.py:83-99: the DailyMetric object built for row i; its id is not set
DailyMetric(ticker, frame, i) ==
    [ticker |-> ticker,
     date |-> frame.rows[i].date,
     close |-> FloatOrZero(frame, i, "close"),
     sma_50 |-> FloatOrZero(frame, i, "sma_50"),
     sma_200 |-> FloatOrZero(frame, i, "sma_200"),
     pct_from_52wk_high |-> FloatOrZero(frame, i, "pct_from_52wk_high"),
     bvps |-> FloatOrNone(frame, i, "bvps"),
     pb_ratio |-> FloatOrNone(frame, i, "pb_ratio"),
     ev |-> FloatOrNone(frame, i, "ev")]

\* database.py:41: UniqueConstraint("ticker", "date")
SameKey(a, b) == a.ticker = b.ticker /\ a.date = b.date

\* database.py:100: session.merge(obj) looks the object up by primary key; obj.id is None,
\* so every object is a new row to INSERT.  The INSERTs violate uix_ticker_date when a
\* stored row, or another new one, has the same (ticker, date).
ViolatesUnique(table, pending) ==
    \/ \E i \in 1..Len(pending) : \E k \in 1..Len(table) : SameKey(pending[i], table[k])
    \/ \E i, j \in 1..Len(pending) : i < j /\ SameKey(pending[i], pending[j])

\* the new rows with their autoincremented ids
Inserted(table, pending) ==
    [i \in 1..Len(pending) |->
        [id |-> Len(table) + i, ticker |-> pending[i].ticker, date |-> pending[i].date,
         close |-> pending[i].close, sma_50 |-> pending[i].sma_50,
         sma_200 |-> pending[i].sma_200,
         pct_from_52wk_high |-> pending[i].pct_from_52wk_high,
         bvps |-> pending[i].bvps, pb_ratio |-> pending[i].pb_ratio, ev |-> pending[i].ev]]

\* database.py:70-103: save_daily_metrics(session_maker, ticker, df).  An IntegrityError
\* leaves the table as it was (the transaction is rolled back when the session closes)
\* and propagates to the caller.
SaveDailyMetrics ==
    \E ticker \in Tickers :
        LET pending == [i \in 1..Len(df.rows) |-> DailyMetric(ticker, df, i)]
        IN  /\ Len(saves) < MaxSaves
            /\ IF ViolatesUnique(db, pending)
               THEN /\ db' = db
                    /\ saves' = Append(saves, [ticker |-> ticker, raised |-> "IntegrityError"])
               ELSE /\ db' = db \o Inserted(db, pending)
                    /\ saves' = Append(saves, [ticker |-> ticker, raised |-> "none"])
            /\ UNCHANGED <<raw_data, cfg, df, done, gc_dates, dc_dates, mainvars, modelvars>>

\* the metrics tables handed to save_daily_metrics: results of process_data
DbInputs ==
    RatioInputs \cup {[raw |-> Raw(<<>>, <<>>, "as_of", DictOf({})), cfg |-> NoCfg]}

InitDb ==
    /\ \E inp \in DbInputs :
          /\ raw_data = inp.raw
          /\ cfg = inp.cfg
          /\ df = process_data(inp.raw, inp.cfg)
    /\ done = {"process_data"}
    /\ gc_dates = <<>>
    /\ dc_dates = <<>>
    /\ db = <<>>
    /\ saves = <<>>
    /\ NoMain /\ NoModel

NextDb == SaveDailyMetrics

SpecDb == InitDb /\ [][NextDb]_vars

\* C4: two save_daily_metrics calls in sequence with the same ticker and the same metrics
\* table are an idempotent upsert: the second call completes without error, the table holds
\* exactly one row per (ticker, date), and the row read back by (ticker, date) has the
\* field values that were saved.
C4_IdempotentUpsert ==
    (Len(saves) = 2 /\ saves[1].ticker = saves[2].ticker) =>
        /\ saves[2].raised = "none"
        /\ \A i \in 1..Len(df.rows) :
              LET saved == DailyMetric(saves[2].ticker, df, i)
                  found == {k \in 1..Len(db) : SameKey(db[k], saved)}
              IN  /\ Cardinality(found) = 1
                  /\ \A k \in found :
                        /\ db[k].close = saved.close
                        /\ db[k].sma_50 = saved.sma_50
                        /\ db[k].sma_200 = saved.sma_200
                        /\ db[k].pct_from_52wk_high = saved.pct_from_52wk_high
                        /\ db[k].bvps = saved.bvps
                        /\ db[k].pb_ratio = saved.pb_ratio
                        /\ db[k].ev = saved.ev


-----------------------------------------------------------------------------
(* Enterprise value: when it is defined (processor.py:187-227) *)

\* the info snapshot holds a market cap at all, zero included, under either key
McPresent == InfoGet(raw_data.info, "marketCap") # NaN \/ InfoGet(raw_data.info, "market_cap") # NaN

\* the info snapshot holds a market cap other than zero; McValue is the first such
McNonZero ==
    \E k \in {"marketCap", "market_cap"} :
        InfoGet(raw_data.info, k) # NaN /\ InfoGet(raw_data.info, k) # Num(0)
McValue ==
    IF InfoGet(raw_data.info, "marketCap") # NaN /\ InfoGet(raw_data.info, "marketCap") # Num(0)
    THEN InfoGet(raw_data.info, "marketCap") ELSE InfoGet(raw_data.info, "market_cap")

\* the liabilities and cash that enter the sum of row i: the row's liabilities; the row's
\* cash, else the info snapshot's
EvLiabilities(i) ==
    RowValue(i, <<"total_liab", "total_liabilities", "totalLiab", "totalLiabilities">>)
EvCash(i) ==
    LET own == RowValue(i, <<"cash_and_equivalents", "cash", "cash_equivalents">>)
    IN  IF own # NaN THEN own ELSE InfoCash

\* C11 as stated, a market cap counting as resolved whenever the snapshot holds one: ev is
\* undefined exactly in the rows of a run whose info snapshot holds no market cap.
C11_Original ==
    Processed => \A i \in 1..Len(df.rows) : (df.rows[i].v["ev"] = NaN) <=> ~McPresent

\* C11: ev is undefined in every row if and only if the info snapshot holds no market cap
\* other than zero; when it holds one, ev = market_cap + liabilities - cash, a missing
\* liabilities or cash value counting as zero and never making ev undefined.
C11_EvUndefinedIffNoMarketCap ==
    Processed =>
        \A i \in 1..Len(df.rows) :
            /\ (df.rows[i].v["ev"] = NaN) <=> ~McNonZero
            /\ McNonZero =>
                   df.rows[i].v["ev"] =
                       Sub(Add(McValue, IF EvLiabilities(i) = NaN THEN Num(0) ELSE EvLiabilities(i)),
                           IF EvCash(i) = NaN THEN Num(0) ELSE EvCash(i))

\* a row with a market cap and neither liabilities nor cash, whose ev is the market cap
\* alone, and next to it a row whose liabilities and cash are both there
C11_Witness ==
    /\ Processed /\ McNonZero
    /\ \E i \in 1..Len(df.rows) :
           /\ EvLiabilities(i) = NaN /\ EvCash(i) = NaN
           /\ df.rows[i].v["ev"] = McValue
    /\ \E i \in 1..Len(df.rows) :
           /\ EvLiabilities(i) # NaN /\ EvCash(i) # NaN /\ df.rows[i].v["ev"] # McValue


-----------------------------------------------------------------------------
(* The 52-week high (processor.py:146-155) *)

\* the largest defined `high` of the output rows lo..hi, NaN when none is defined
HighestHigh(lo, hi) ==
    LET seen == {df.rows[j].v["high"] : j \in {k \in lo..hi : df.rows[k].v["high"] # NaN}}
    IN  IF seen = {} THEN NaN ELSE CHOOSE h \in seen : \A o \in seen : Ge(h, o)

\* C12: 52wk_high at row i is the maximum of `high` over the trailing window of rows
\* max(0, i-W+1)..i, W = rolling_days_for_52week.
C12_HighOverTrailingWindow ==
    Processed =>
        \A i \in 1..Len(df.rows) :
            df.rows[i].v["52wk_high"] = HighestHigh(Max(1, i - window_52wk(cfg) + 1), i)


-----------------------------------------------------------------------------
(* Book value per share (processor.py:157-185) *)

EquityNames == <<"total_equity", "totalShareholdersEquity", "totalStockholdersEquity",
                 "total_equity_fund">>
SharesNames == <<"shares_outstanding", "shares", "common_shares_outstanding">>

\* C16: bvps of a row is the resolved equity field divided by the resolved
\* shares-outstanding field exactly when the row has both and shares-outstanding > 0;
\* in every other case (a field unresolved, absent in the row, shares <= 0) it is undefined.
C16_BvpsOnlyWithEquityAndPositiveShares ==
    Processed =>
        \A i \in 1..Len(df.rows) :
            LET equity == RowValue(i, EquityNames)
                shares == RowValue(i, SharesNames)
            IN  df.rows[i].v["bvps"] =
                    IF equity # NaN /\ shares # NaN /\ Gt(shares, Num(0))
                    THEN Div(equity, shares) ELSE NaN

\* a table with a row before the first snapshot, whose fields are absent and whose bvps is
\* undefined, and a later row with equity 40 and 10 shares, whose bvps is 4
C16_Witness ==
    /\ Processed
    /\ \E i \in 1..Len(df.rows) :
           /\ RowValue(i, EquityNames) = Num(40) /\ RowValue(i, SharesNames) = Num(10)
           /\ df.rows[i].v["bvps"] = Num(4)
    /\ \E i \in 1..Len(df.rows) :
           /\ RowValue(i, EquityNames) = NaN /\ "total_equity" \in df.columns
           /\ df.rows[i].v["bvps"] = NaN

\* rows whose shares-outstanding is zero or negative are reached as well
C16_NonPositiveSharesReached ==
    Processed /\ \E i \in 1..Len(df.rows) :
        /\ RowValue(i, EquityNames) # NaN /\ RowValue(i, SharesNames) # NaN
        /\ Lt(RowValue(i, SharesNames), Num(0))

-----------------------------------------------------------------------------
(* models.py: construction of a PricePoint *)

\* prices are 1..MaxPrice
MaxPrice == 3

\* models.py:22-27: the validated fields in declaration order (date comes first; it is a
\* datetime with no validator of its own)
PricePointFields == <<"open", "high", "low", "close", "volume">>

\* models.py:29-57: TRUE when a validator of the field raises ValueError; `values` holds
\* the fields validated so far
ValidatorRaises(field, v, values) ==
    CASE field = "high" -> "low" \in DOMAIN values /\ v < values["low"]
      [] field = "close" -> \/ "low" \in DOMAIN values /\ v < values["low"]
                            \/ "high" \in DOMAIN values /\ v > values["high"]
      [] field = "open" -> \/ "low" \in DOMAIN values /\ v < values["low"]
                           \/ "high" \in DOMAIN values /\ v > values["high"]
      [] OTHER -> FALSE

\* pydantic validates the fields one after the other in declaration order; a field that
\* passed joins `values`, one whose validator raised is left out and reported
RECURSIVE validate_fields(_, _, _)
validate_fields(kwargs, k, values) ==
    IF k > Len(PricePointFields) THEN {}
    ELSE LET f == PricePointFields[k]
             raises == ValidatorRaises(f, kwargs[f], values)
         IN  (IF raises THEN {f} ELSE {})
             \cup validate_fields(kwargs, k + 1,
                                  IF raises THEN values ELSE values @@ (f :> kwargs[f]))

\* models.py:21-57: PricePoint(**kwargs): the object, or the ValidationError
PricePoint(kwargs) ==
    IF validate_fields(kwargs, 1, NoBar) = {}
    THEN [raised |-> "none", object |-> kwargs]
    ELSE [raised |-> "ValidationError", object |-> NoBar]

\* the bars handed to PricePoint: any four prices, a volume below, at or above zero
PricePointInputs ==
    [open : 1..MaxPrice, high : 1..MaxPrice, low : 1..MaxPrice, close : 1..MaxPrice,
     volume : {0 - 1, 0, 1}]

InitModels ==
    /\ raw_data = NoRaw
    /\ cfg = NoCfg
    /\ df = EmptyFrame
    /\ done = {}
    /\ gc_dates = <<>>
    /\ dc_dates = <<>>
    /\ db = <<>>
    /\ saves = <<>>
    /\ NoMain
    /\ bar \in PricePointInputs
    /\ price_point = NoPoint

\* a call PricePoint(date=..., open=..., high=..., low=..., close=..., volume=...)
ConstructPricePoint ==
    /\ price_point = NoPoint
    /\ price_point' = PricePoint(bar)
    /\ UNCHANGED <<raw_data, cfg, df, done, gc_dates, dc_dates, db, saves, mainvars, bar>>

NextModels == ConstructPricePoint

SpecModels == InitModels /\ [][NextModels]_vars

\* the relations a bar has to satisfy
BarValid(b) ==
    /\ b.low <= b.open /\ b.open <= b.high
    /\ b.low <= b.close /\ b.close <= b.high
    /\ b.low <= b.high
    /\ b.volume >= 0

\* C15: a PricePoint is constructed exactly for the bars with low <= open <= high,
\* low <= close <= high, low <= high and volume >= 0; for every bar that violates one of
\* these relations the construction is rejected with a validation error.
C15_OnlyValidBarsConstructed ==
    price_point # NoPoint => (price_point.raised = "none" <=> BarValid(bar))

\* what the validators do enforce: low <= close <= high, and with it low <= high
C15_CloseWithinRange ==
    price_point # NoPoint =>
        (price_point.raised = "none" <=> (bar.low <= bar.close /\ bar.close <= bar.high))

-----------------------------------------------------------------------------
(* main.py: one run of the pipeline after the other, on one database *)

\* runs of main() in a behaviour
MaxRuns == 2

\* what fetch_stock_data returns: price records with all six fields, ascending from
\* 2020-01-01, or no price records at all; quarterly records keyed by end_date
MainPrices(closes) == [i \in 1..Len(closes) |-> [date |-> i - 1, v |-> FullBar(closes[i])]]

FetchResults ==
    {Raw(MainPrices(closes), <<>>, "end_date", DictOf({<<"marketCap", Num(100)>>})) :
        closes \in {<<>>, <<3, 1, 3>>, <<1, 3, 1>>, <<1, 1, 1>>}}
    \cup {Raw(MainPrices(<<3, 1, 3>>), <<[date |-> 1, fields |-> SnapFull]>>, "end_date",
              DictOf({<<"marketCap", Num(100)>>}))}

\* main.py:29-33: the configuration file's windows, or {} when it cannot be loaded
MainCfgs == {CfgOf(1, 2, 2), NoCfg}

\* main.py:42: df.reset_index() if "date" is not a column, else df.  Every table
\* process_data builds from price rows has the date column; the empty DataFrame has not
reset_index(frame) == [columns |-> frame.columns \cup {"index"}, rows |-> frame.rows]
df_for_signals(frame) == IF frame = EmptyFrame THEN reset_index(frame) ELSE frame

\* main.py:44
SignalDicts(ticker, dates) ==
    [k \in 1..Len(dates) |-> [ticker |-> ticker, date |-> dates[k], signal |-> "golden_cross"]]

\* database.py:117-120: pd.to_datetime("2020-01-dd").date()
to_date(s) == s[3] - 1

\* database.py:123-128: the SignalEvent built for a signal dict; its id is not set
SignalEvent(sig) == [ticker |-> sig.ticker, date |-> to_date(sig.date), signal |-> sig.signal]

\* database.py:51: UniqueConstraint("ticker", "date", "signal")
SameSignal(a, b) == a.ticker = b.ticker /\ a.date = b.date /\ a.signal = b.signal

\* database.py:129: session.merge of objects without id, as in save_daily_metrics
ViolatesUniqueSignal(table, pending) ==
    \/ \E i \in 1..Len(pending) : \E k \in 1..Len(table) : SameSignal(pending[i], table[k])
    \/ \E i, j \in 1..Len(pending) : i < j /\ SameSignal(pending[i], pending[j])

InsertedSignals(table, pending) ==
    [i \in 1..Len(pending) |->
        [id |-> Len(table) + i, ticker |-> pending[i].ticker, date |-> pending[i].date,
         signal |-> pending[i].signal]]

\* main.py:51-57: the summary record (source_used and config left out)
Summary(ticker, frame, sigs) ==
    [ticker |-> ticker, metrics_count |-> Len(frame.rows), signals |-> sigs]

\* a step of the try block returned: main goes on to the next one
Returned(step, next) == [run EXCEPT !.pc = next, !.log = Append(@, step)]

\* main.py:62-64: a step raised: logger.exception, then typer.Exit(code=1)
Raised(step) == [run EXCEPT !.pc = "exited", !.raised = step, !.exit_code = 1]

\* main.py:19-35: main(ticker, output, config_path, db_path) is called; the config is
\* loaded and the database opened
MainStart ==
    /\ run.pc \in {"idle", "exited"}
    /\ run.runs < MaxRuns
    /\ \E ticker \in Tickers, c \in MainCfgs :
          /\ run' = [pc |-> "fetch", ticker |-> ticker, log |-> <<>>, raised |-> "",
                     exit_code |-> 0 - 1, wrote |-> FALSE, runs |-> run.runs + 1]
          /\ cfg' = c
    /\ raw_data' = NoRaw
    /\ df' = EmptyFrame
    /\ done' = {}
    /\ gc_dates' = <<>>
    /\ signals' = <<>>
    /\ UNCHANGED <<dc_dates, db, saves, signal_events, summary, modelvars>>

\* main.py:38: raw = fetch_stock_data(ticker)
Fetch ==
    /\ run.pc = "fetch"
    /\ raw_data' \in FetchResults
    /\ run' = Returned("fetch", "process")
    /\ UNCHANGED <<cfg, df, done, gc_dates, dc_dates, db, saves, signals, signal_events,
                   summary, modelvars>>

\* data_fetcher.py:60-62: the price history cannot be fetched; the exception is re-raised
FetchRaises ==
    /\ run.pc = "fetch"
    /\ run' = Raised("fetch")
    /\ UNCHANGED <<raw_data, cfg, df, done, gc_dates, dc_dates, db, saves, signals,
                   signal_events, summary, modelvars>>

\* main.py:39: df = process_data(raw, cfg)
MainProcess ==
    /\ run.pc = "process"
    /\ df' = process_data(raw_data, cfg)
    /\ done' = done \cup {"process_data"}
    /\ run' = Returned("process", "detect")
    /\ UNCHANGED <<raw_data, cfg, gc_dates, dc_dates, db, saves, signals, signal_events,
                   summary, modelvars>>

\* main.py:42-44: the golden crossovers of the table, and the signal dicts built from them
MainDetect ==
    /\ run.pc = "detect"
    /\ LET dates == detect_golden_crossover(df_for_signals(df))
       IN  /\ gc_dates' = dates
           /\ signals' = SignalDicts(run.ticker, dates)
    /\ done' = done \cup {"detect_golden_crossover"}
    /\ run' = Returned("detect", "save_daily_metrics")
    /\ UNCHANGED <<raw_data, cfg, df, dc_dates, db, saves, signal_events, summary, modelvars>>

\* main.py:47: save_daily_metrics(SessionMaker, ticker, df_for_signals)
MainSaveDailyMetrics ==
    /\ run.pc = "save_daily_metrics"
    /\ LET frame == df_for_signals(df)
           pending == [i \in 1..Len(frame.rows) |-> DailyMetric(run.ticker, frame, i)]
       IN  IF ViolatesUnique(db, pending)
           THEN /\ db' = db
                /\ saves' = Append(saves, [ticker |-> run.ticker, raised |-> "IntegrityError"])
                /\ run' = Raised("save_daily_metrics")
           ELSE /\ db' = db \o Inserted(db, pending)
                /\ saves' = Append(saves, [ticker |-> run.ticker, raised |-> "none"])
                /\ run' = Returned("save_daily_metrics", "save_signals")
    /\ UNCHANGED <<raw_data, cfg, df, done, gc_dates, dc_dates, signals, signal_events,
                   summary, modelvars>>

\* main.py:48: save_signals(SessionMaker, signals)
MainSaveSignals ==
    /\ run.pc = "save_signals"
    /\ LET pending == [k \in 1..Len(signals) |-> SignalEvent(signals[k])]
       IN  IF ViolatesUniqueSignal(signal_events, pending)
           THEN /\ signal_events' = signal_events
                /\ run' = Raised("save_signals")
           ELSE /\ signal_events' = signal_events \o InsertedSignals(signal_events, pending)
                /\ run' = Returned("save_signals", "write")
    /\ UNCHANGED <<raw_data, cfg, df, done, gc_dates, dc_dates, db, saves, signals, summary,
                   modelvars>>

\* database.py:130-132: session.commit() fails (the database file is locked or cannot be
\* written); the session is closed, nothing of the call is stored, the error propagates
MainSaveSignalsRaises ==
    /\ run.pc = "save_signals"
    /\ run' = Raised("save_signals")
    /\ UNCHANGED <<raw_data, cfg, df, done, gc_dates, dc_dates, db, saves, signals,
                   signal_events, summary, modelvars>>

\* the summary written one step early, before save_signals
WriteSummary_before_save_signals ==
    /\ run.pc = "save_signals"
    /\ summary' = Summary(run.ticker, df, signals)
    /\ run' = [Returned("write", "exited") EXCEPT !.wrote = TRUE, !.exit_code = 0]
    /\ UNCHANGED <<raw_data, cfg, df, done, gc_dates, dc_dates, db, saves, signals,
                   signal_events, modelvars>>

\* main.py:51-61: the summary is written to the output path and main returns
WriteSummary ==
    /\ run.pc = "write"
    /\ summary' = Summary(run.ticker, df, signals)
    /\ run' = [Returned("write", "exited") EXCEPT !.wrote = TRUE, !.exit_code = 0]
    /\ UNCHANGED <<raw_data, cfg, df, done, gc_dates, dc_dates, db, saves, signals,
                   signal_events, modelvars>>

\* main.py:58: open(output, "w") raises (the path cannot be written): no file is written
WriteSummaryRaises ==
    /\ run.pc = "write"
    /\ run' = Raised("write")
    /\ UNCHANGED <<raw_data, cfg, df, done, gc_dates, dc_dates, db, saves, signals,
                   signal_events, summary, modelvars>>

Init ==
    /\ raw_data = NoRaw
    /\ cfg = NoCfg
    /\ df = EmptyFrame
    /\ done = {}
    /\ gc_dates = <<>>
    /\ dc_dates = <<>>
    /\ db = <<>>
    /\ saves = <<>>
    /\ NoMain /\ NoModel

Next ==
    \/ MainStart
    \/ Fetch
    \/ FetchRaises
    \/ MainProcess
    \/ MainDetect
    \/ MainSaveDailyMetrics
    \/ MainSaveSignals
    \/ MainSaveSignalsRaises
    \/ WriteSummary
    \/ WriteSummaryRaises

Spec == Init /\ [][Next]_vars

-----------------------------------------------------------------------------
(* The pipeline run: its signals, its failures, the order of its steps *)

\* the (date, kind) pairs at which a crossover condition holds on the run's table
GoldenEvents == {<<strftime(df.rows[i].date), "golden_cross">> :
                    i \in {k \in 1..Len(df.rows) : GoldenCondition(k)}}
DeathEvents == {<<strftime(df.rows[i].date), "death_cross">> :
                   i \in {k \in 1..Len(df.rows) : DeathCondition(k)}}

\* the (date, kind) pairs of a signal list, and those stored for the run's ticker
EventsOf(sigs) == {<<sigs[k].date, sigs[k].signal>> : k \in 1..Len(sigs)}
StoredEvents ==
    {<<strftime(signal_events[k].date), signal_events[k].signal>> :
        k \in {j \in 1..Len(signal_events) : signal_events[j].ticker = run.ticker}}

\* C13: the signal list a run persists and writes into the summary record holds an event
\* for every (date, kind) at which the golden_cross or the death_cross condition holds on
\* the run's sma_50/sma_200 columns, and no other event.
C13_SignalsAreAllCrossovers ==
    run.wrote =>
        /\ EventsOf(signals) = GoldenEvents \cup DeathEvents
        /\ EventsOf(summary.signals) = GoldenEvents \cup DeathEvents
        /\ GoldenEvents \cup DeathEvents \subseteq StoredEvents

\* what the run does persist and write: the golden crossovers, and nothing else
C13_GoldenCrossoversOnly ==
    run.wrote =>
        /\ EventsOf(signals) = GoldenEvents
        /\ summary.signals = signals
        /\ GoldenEvents \subseteq StoredEvents

\* C14: when the fetched price input is empty the run is a fatal failure: no metrics rows
\* are produced or persisted, no summary is written and the run exits with code 1 instead
\* of completing.
C14_EmptyPricesAreFatal ==
    (run.pc = "exited" /\ "fetch" \in Range(run.log) /\ raw_data.prices = <<>>) =>
        /\ run.exit_code = 1
        /\ ~run.wrote
        /\ df.rows = <<>>

\* what happens instead: the run goes through every step with an empty table (unless the
\* database or the output path fails)
C14_EmptyPricesComplete ==
    (run.pc = "exited" /\ "fetch" \in Range(run.log) /\ raw_data.prices = <<>>
        /\ run.raised \notin {"save_signals", "write"}) =>
        /\ run.exit_code = 0
        /\ run.wrote /\ summary.metrics_count = 0 /\ summary.signals = <<>>

StepOrder == <<"fetch", "process", "detect", "save_daily_metrics", "save_signals", "write">>

\* every row of the run's table is stored under the run's ticker
MetricsStored ==
    \A i \in 1..Len(df.rows) :
        \E k \in 1..Len(db) : db[k].ticker = run.ticker /\ db[k].date = df.rows[i].date

\* every signal of the run's list is stored
SignalsStored ==
    \A k \in 1..Len(signals) :
        \E j \in 1..Len(signal_events) : SameSignal(signal_events[j], SignalEvent(signals[k]))

C17_SecondRunFails ==
    run.runs = 2 /\ run.raised = "save_daily_metrics" /\ summary # NoFile

=============================================================================
